---- MODULE Spec2Model ----
(***************************************************************************)
(* A model of the dispatcher library: BaseDispatcher (listen, listenPost,  *)
(* unbind, dispatch), BaseServerDispatcher (on, handle, emit, broadcast,   *)
(* onEvent, onFunction) and BaseClientDispatcher (emit, invoke,            *)
(* handleEvent), with the two remotes DispatcherEvent and                  *)
(* DispatcherFunction between them.                                        *)
(*                                                                         *)
(* The library is roblox-ts: a Map is a Lua table and is walked with       *)
(* pairs(), whose order of enumeration Lua leaves unspecified, even for    *)
(* numeric keys.  The order of one walk is therefore a choice among the    *)
(* orders of the map's keys (see pairs below).                             *)
(*                                                                         *)
(* Handlers are the callers' functions.  A handler here is a name; calling *)
(* it is recorded in calls, and its return value is HandlerResult.  The    *)
(* handlers of Handlers return normally and call nothing; the operations   *)
(* are first given for them.  Handlers that throw, that unbind and listen, *)
(* and that dispatch, emit and invoke come after, in "Handlers that act",  *)
(* with the same operations followed call by call.                         *)
(*                                                                         *)
(* The remotes are Roblox's.  What an operation hands to one is recorded   *)
(* in fired; what one delivers is an input of OnServerEvent, OnClientEvent *)
(* and OnServerInvoke: any player may fire any handle with any arguments.  *)
(* An invoke is followed from InvokeServer to its return in invoking.      *)
(*                                                                         *)
(* Next puts the operations together.  The properties are stated of the    *)
(* parts, whose states can be explored in full: SpecDispatcher (a          *)
(* dispatcher used locally), SpecServer (the server's events),             *)
(* SpecFunctions (the server's functions and the invokes of them),         *)
(* SpecClient (a client), SpecBoundary (events on both sides),             *)
(* SpecRegistry (registration alone), SpecInstances (two dispatchers in    *)
(* one process), SpecTables (the server's four tables), SpecSends (all     *)
(* that sends), SpecTracing (the server with its verbose flag assigned at  *)
(* will), and, with handlers that act, SpecMutation, SpecFailure,          *)
(* SpecCallbacks and SpecReentrant.                                        *)
(*                                                                         *)
(* verbose starts as RunService.IsStudio() gives it, the same for every    *)
(* dispatcher; what verbosePrint hands to print() is recorded in printed.  *)
(* The constructor's own message comes before any operation and is not in  *)
(* it.                                                                     *)
(***************************************************************************)
EXTENDS Naturals, Sequences, FiniteSets, TLC

VARIABLES
    caseNumber,           \* BaseDispatcher.caseNumber of each instance
    boundOperations,      \* BaseDispatcher.boundOperations of each instance
    boundPostOperations,  \* BaseDispatcher.boundPostOperations of each instance
    incomingEvents,       \* BaseServerDispatcher.incomingEvents
    incomingFunctions,    \* BaseServerDispatcher.incomingFunctions
    registered,           \* every registration made so far: the identifier
                          \* returned to the caller, and the handler it bound
    unbound,              \* the identifiers unbind has been called with
    invoking,             \* DispatcherFunction: each client's invoke call, from
                          \* InvokeServer to its return
    yielded,              \* each client's dispatch pass that waits inside a
                          \* handler for InvokeServer to return: what is left
                          \* of it
    op,                   \* the operation that ran last, with its inputs
    calls,                \* the handler calls that operation made, in order
    ret,                  \* what that operation returned
    warnings,             \* what that operation passed to warn()
    fired,                \* what that operation handed to a remote to send
    raised,               \* whether that operation raised an error
    verbose,              \* BaseDispatcher.verbose of each instance
    printed               \* what that operation passed to print()

vars == <<caseNumber, boundOperations, boundPostOperations, incomingEvents,
          incomingFunctions, registered, unbound, invoking, yielded, op, calls,
          ret, warnings, fired, raised, verbose, printed>>

registry == <<caseNumber, boundOperations, boundPostOperations, incomingEvents,
              incomingFunctions>>

channels == <<invoking, yielded>>

---------------------------------------------------------------------------
(* Bounds *)

\* caseNumber stops here: at most MaxCase registrations per instance.
MaxCase == 2

---------------------------------------------------------------------------
(* The inputs *)

Server == "server"

Players == {"p1", "p2"}

\* The clients whose own dispatcher is followed; every client runs the same
\* code on tables of its own.
Clients == {"p1"}

\* A second dispatcher constructed in the server's process: a BaseDispatcher
\* of its own, which the server's scripts can hand the server's identifiers to
\* and take identifiers from.
Other == "other"

Instances == {Server, Other} \cup Clients

\* RunService.IsStudio(): true in Studio, false in a published place.
IsStudio == BOOLEAN

Handles == {"foo", "bar"}

Handlers == {"h1", "h2"}

\* The handler registered where which handler it is makes no difference.
TheHandler == "h1"

Values == {"x"}

ArgLists == {<<>>} \cup {<<v>> : v \in Values}

\* A value as it arrives over a remote: the receiver knows nothing of its type.
Str(s) == [type |-> "string", value |-> s]

NotAString == [type |-> "number", value |-> "7"]

WireHandles == {Str(h) : h \in Handles} \cup {NotAString}

Undefined == [kind |-> "undefined"]

Bool(b) == [kind |-> "boolean", value |-> b]

\* What a handler returns: a value of its own, made from what it was called with.
HandlerResult(handler, args) == [kind |-> "result", by |-> handler, with |-> args]

\* What a remote is handed to send: by FireServer and InvokeServer to the
\* server, by FireClient to one player, by FireAllClients to all.
Message(remote, to, handle, args) ==
    [remote |-> remote, to |-> to, handle |-> handle, args |-> args]

\* A client that is not inside invoke.
Idle == [state |-> "idle", handle |-> Str(""), args |-> <<>>, value |-> Undefined]

NoOp == [name |-> "none", inst |-> Server, handle |-> "", args |-> <<>>, player |-> ""]

Call(table, id, handler, args) ==
    [table |-> table, id |-> id, handler |-> handler, args |-> args]

---------------------------------------------------------------------------
(* Maps *)

\* new Map()
EmptyMap == <<>>

\* Map.set
MapSet(map, key, value) ==
    [k \in DOMAIN map \cup {key} |-> IF k = key THEN value ELSE map[k]]

\* Map.delete: the map without the key
MapDelete(map, key) == [k \in DOMAIN map \ {key} |-> map[k]]

\* Map.delete's return value: whether the key was there
MapHad(map, key) == key \in DOMAIN map

RECURSIVE Orders(_)
Orders(S) ==
    IF S = {} THEN {<<>>}
    ELSE UNION {{<<k>> \o rest : rest \in Orders(S \ {k})} : k \in S}

\* pairs(map): the orders in which one walk may enumerate the keys
pairs(map) == Orders(DOMAIN map)

\* The keys in increasing order: the order of registration.
RECURSIVE Increasing(_)
Increasing(S) ==
    IF S = {} THEN <<>>
    ELSE LET least == CHOOSE k \in S : \A j \in S : k <= j
         IN  <<least>> \o Increasing(S \ {least})

---------------------------------------------------------------------------
(* The tables an identifier's group can refer to *)

Group(inst, table) == [inst |-> inst, table |-> table]

Table(group) ==
    CASE group.table = "boundOperations" -> boundOperations[group.inst]
      [] group.table = "boundPostOperations" -> boundPostOperations[group.inst]
      [] group.table = "incomingEvents" -> incomingEvents

\* The group's table becomes operations; the other tables stay.
SetTable(group, operations) ==
    /\ boundOperations' =
           IF group.table = "boundOperations"
           THEN [boundOperations EXCEPT ![group.inst] = operations]
           ELSE boundOperations
    /\ boundPostOperations' =
           IF group.table = "boundPostOperations"
           THEN [boundPostOperations EXCEPT ![group.inst] = operations]
           ELSE boundPostOperations
    /\ incomingEvents' =
           IF group.table = "incomingEvents" THEN operations ELSE incomingEvents

\* operations[handle], undefined (here: no key) when never bound
Has(operations, handle) == handle \in DOMAIN operations

Identifier(group, handle, id) == [group |-> group, handle |-> handle, id |-> id]

\* The identifiers the callers hold.
issued == {r.identifier : r \in registered}

history == <<registered, unbound>>

---------------------------------------------------------------------------
(* BaseDispatcher *)

Init ==
    /\ caseNumber = [d \in Instances |-> 0]
    /\ boundOperations = [d \in Instances |-> <<>>]
    /\ boundPostOperations = [d \in Instances |-> <<>>]
    /\ incomingEvents = <<>>
    /\ incomingFunctions = <<>>
    /\ registered = {}
    /\ unbound = {}
    /\ invoking = [p \in Players |-> Idle]
    /\ yielded = [p \in Players |-> <<>>]
    /\ op = NoOp
    /\ calls = <<>>
    /\ ret = Undefined
    /\ warnings = <<>>
    /\ fired = <<>>
    /\ raised = FALSE
    /\ \E studio \in IsStudio : verbose = [d \in Instances |-> studio]
    /\ printed = <<>>

\* print('DISPATCHER:', ...message), by the instance
Trace(d, message) == [inst |-> d, message |-> message]

\* verbosePrint that prints whatever the flag is.
verbosePrint_Always(d, message) == <<Trace(d, message)>>

\* verbosePrint: nothing when the instance is not verbose, one print otherwise.
verbosePrint(d, message) ==
    IF ~verbose[d] THEN <<>> ELSE <<Trace(d, message)>>

\* An operation that has no verbosePrint in it, and assigns verbose nowhere.
NothingPrinted ==
    /\ printed' = <<>>
    /\ UNCHANGED verbose

\* `Bound "${handle}"`
BoundMessage(handle) == [text |-> "Bound", handle |-> handle]

\* `Bound "${handle}" to post`
BoundPostMessage(handle) == [text |-> "Bound to post", handle |-> handle]

\* `Bound EVNT: "${handle}"`
BoundEventMessage(handle) == [text |-> "Bound EVNT", handle |-> handle]

\* `Bound FUNC: "${handle}"`
BoundFunctionMessage(handle) == [text |-> "Bound FUNC", handle |-> handle]

\* `Queued "${handle}" with ${size} (+${postSize}) bound.`: the size is 0 when
\* the handle has no map, and the part in brackets is there only when the
\* handle has a post map.
QueuedMessage(handle, operations, postOperations) ==
    [text |-> "Queued", handle |-> handle,
     size |-> IF Has(operations, handle)
              THEN Cardinality(DOMAIN operations[handle]) ELSE 0,
     post |-> IF Has(postOperations, handle)
              THEN <<Cardinality(DOMAIN postOperations[handle])>> ELSE <<>>]

\* verbose is a public field: the dispatcher's owner assigns it.
setVerbose(d, value) ==
    /\ verbose' = [verbose EXCEPT ![d] = value]
    /\ op' = [name |-> "setVerbose", inst |-> d, handle |-> "", args |-> <<value>>,
              player |-> ""]
    /\ calls' = <<>>
    /\ ret' = Undefined
    /\ warnings' = <<>>
    /\ fired' = <<>>
    /\ raised' = FALSE
    /\ printed' = <<>>
    /\ UNCHANGED <<registry, history, channels>>

\* bindListen's table after the call: the handle's map is created when it is
\* missing, and the handler is set under the case number.
bindListenTable(operations, handle, id, handler) ==
    LET bound == IF Has(operations, handle) THEN operations[handle] ELSE EmptyMap
    IN  [h \in DOMAIN operations \cup {handle} |->
            IF h = handle THEN MapSet(bound, id, handler) ELSE operations[h]]

\* bindListen that leaves the case number as it was.
nextCaseNumber_Same(n) == n

\* The case number bindListen leaves for the next registration.
nextCaseNumber(n) == n + 1

bindListen(name, d, handle, group, handler) ==
    /\ caseNumber[d] < MaxCase
    /\ caseNumber' = [caseNumber EXCEPT ![d] = nextCaseNumber(@)]
    /\ SetTable(group, bindListenTable(Table(group), handle, caseNumber[d], handler))
    /\ registered' = registered \cup
           {[identifier |-> Identifier(group, handle, caseNumber[d]),
             handler |-> handler]}
    /\ UNCHANGED unbound
    /\ op' = [name |-> name, inst |-> d, handle |-> handle, args |-> <<handler>>,
              player |-> ""]
    /\ calls' = <<>>
    /\ ret' = [kind |-> "identifier",
               value |-> Identifier(group, handle, caseNumber[d])]
    /\ warnings' = <<>>
    /\ fired' = <<>>
    /\ raised' = FALSE
    /\ UNCHANGED <<incomingFunctions, channels, verbose>>

listen(d, handle, handler) ==
    /\ printed' = verbosePrint(d, BoundMessage(handle))
    /\ bindListen("listen", d, handle, Group(d, "boundOperations"), handler)

listenPost(d, handle, handler) ==
    /\ printed' = verbosePrint(d, BoundPostMessage(handle))
    /\ bindListen("listenPost", d, handle, Group(d, "boundPostOperations"), handler)

\* The calls of one walk over a handle's map, in the order the walk takes.
walk(table, operations, handle, order, args) ==
    [i \in 1..Len(order) |-> Call(table, order[i], operations[handle][order[i]], args)]

\* dispatchCalls with the walks keyed by nothing: every handle's handlers run.
dispatchCalls_EveryHandle(d, handle, args, order, postOrder) ==
    LET all(table, operations) ==
            LET keys == {<<h, id>> : h \in DOMAIN operations, id \in 0..MaxCase}
                live == {k \in keys : k[2] \in DOMAIN operations[k[1]]}
                RECURSIVE list(_)
                list(S) ==
                    IF S = {} THEN <<>>
                    ELSE LET k == CHOOSE x \in S : \A y \in S : x[2] <= y[2]
                         IN  <<Call(table, k[2], operations[k[1]][k[2]], args)>>
                             \o list(S \ {k})
            IN  list(live)
    IN  all("boundOperations", boundOperations[d])
        \o all("boundPostOperations", boundPostOperations[d])

\* dispatch's handler calls, given the orders of its two walks: the main map's
\* handlers, then the post map's.
dispatchCalls(d, handle, args, order, postOrder) ==
    (IF Has(boundOperations[d], handle)
     THEN walk("boundOperations", boundOperations[d], handle, order, args)
     ELSE <<>>)
    \o
    (IF Has(boundPostOperations[d], handle)
     THEN walk("boundPostOperations", boundPostOperations[d], handle, postOrder, args)
     ELSE <<>>)

\* The orders a walk of operations[handle] may take; one empty walk when the
\* handle has no map.
walks(operations, handle) ==
    IF Has(operations, handle) THEN pairs(operations[handle]) ELSE {<<>>}

\* dispatch that returns what the last handler it called returned.
dispatchReturn_Last(made) ==
    IF made = <<>> THEN Undefined
    ELSE HandlerResult(made[Len(made)].handler, made[Len(made)].args)

\* dispatch has no return statement: what the handlers returned is dropped.
dispatchReturn(made) == Undefined

dispatchBody(name, d, handle, args, player) ==
    \E order \in walks(boundOperations[d], handle),
       postOrder \in walks(boundPostOperations[d], handle) :
        /\ calls' = dispatchCalls(d, handle, args, order, postOrder)
        /\ op' = [name |-> name, inst |-> d, handle |-> handle, args |-> args,
                  player |-> player]
        /\ ret' = dispatchReturn(calls')
        /\ fired' = <<>>
        /\ raised' = FALSE
        /\ printed' = verbosePrint(d, QueuedMessage(handle, boundOperations[d],
                                                    boundPostOperations[d]))
        /\ UNCHANGED <<registry, history, verbose>>

dispatch(d, handle, args) ==
    /\ dispatchBody("dispatch", d, handle, args, "")
    /\ warnings' = <<>>
    /\ UNCHANGED channels

\* unbind that deletes nothing.
unbindTable_Keeps(operations, handle, id) == operations

\* unbind that clears the handle's whole map.
unbindTable_Clears(operations, handle, id) ==
    [operations EXCEPT ![handle] = EmptyMap]

\* unbind: the identifier's group is the table itself, whoever calls.
unbindTable(operations, handle, id) ==
    [operations EXCEPT ![handle] = MapDelete(@, id)]

unbindReturn(operations, handle, id) == MapHad(operations[handle], id)

unbind(d, operationIdentifier) ==
    LET group == operationIdentifier.group
        handle == operationIdentifier.handle
        id == operationIdentifier.id
    IN  /\ op' = [name |-> "unbind", inst |-> d, handle |-> handle,
                  args |-> <<operationIdentifier>>, player |-> ""]
        /\ calls' = <<>>
        /\ warnings' = <<>>
        /\ fired' = <<>>
        /\ IF Has(Table(group), handle)
           THEN /\ SetTable(group, unbindTable(Table(group), handle, id))
                /\ ret' = Bool(unbindReturn(Table(group), handle, id))
                /\ raised' = FALSE
           ELSE \* searchingMap is undefined: indexing it raises
                /\ UNCHANGED <<boundOperations, boundPostOperations, incomingEvents>>
                /\ ret' = Undefined
                /\ raised' = TRUE
        /\ unbound' = unbound \cup {operationIdentifier}
        /\ NothingPrinted
        /\ UNCHANGED <<caseNumber, incomingFunctions, registered, channels>>

---------------------------------------------------------------------------
(* BaseServerDispatcher *)

typeIs(value, type) == value.type = type

\* verifyRemoteExistance that lets every key through.
verifyRemoteExistance_Skipped(key, table) == TRUE

\* verifyRemoteExistance that checks the key's type only.
verifyRemoteExistance_TypeOnly(key, table) == typeIs(key, "string")

verifyRemoteExistance(key, table) ==
    IF ~typeIs(key, "string") THEN FALSE
    ELSE IF ~Has(table, key.value) THEN FALSE
    ELSE TRUE

EventWarning(player) == [player |-> player, what |-> "event"]

FunctionWarning(player) == [player |-> player, what |-> "function"]

\* What emit hands to the remote: one FireClient, to the player named.
serverEmitFired(player, handle, args) ==
    <<Message("DispatcherEvent", {player}, handle, args)>>

\* emit: FireClient(player, handle, ...args)
serverEmit(player, handle, args) ==
    /\ fired' = serverEmitFired(player, handle, args)
    /\ op' = [name |-> "emit", inst |-> Server, handle |-> handle, args |-> args,
              player |-> player]
    /\ calls' = <<>>
    /\ ret' = Undefined
    /\ warnings' = <<>>
    /\ raised' = FALSE
    /\ NothingPrinted
    /\ UNCHANGED <<registry, history, channels>>

\* broadcast that fires at the players one after another.
broadcastFired_PerPlayer(handle, args) ==
    LET RECURSIVE each(_)
        each(S) ==
            IF S = {} THEN <<>>
            ELSE LET p == CHOOSE q \in S : TRUE
                 IN  <<Message("DispatcherEvent", {p}, handle, args)>> \o each(S \ {p})
    IN  each(Players)

\* What broadcast hands to the remote: one FireAllClients.
broadcastFired(handle, args) ==
    <<Message("DispatcherEvent", Players, handle, args)>>

\* broadcast: FireAllClients(handle, ...args)
broadcast(handle, args) ==
    /\ fired' = broadcastFired(handle, args)
    /\ op' = [name |-> "broadcast", inst |-> Server, handle |-> handle, args |-> args,
              player |-> ""]
    /\ calls' = <<>>
    /\ ret' = Undefined
    /\ warnings' = <<>>
    /\ raised' = FALSE
    /\ NothingPrinted
    /\ UNCHANGED <<registry, history, channels>>

\* handleEvent that passes the arguments on without the player.
handleEventArgs_NoSender(player, args) == args

\* What handleEvent and handleFunction pass to a handler.
handleEventArgs(player, args) == <<player>> \o args

\* handleEvent that walks the handle's listen handlers.
handleEventCalls_Local(player, handle, args, order) ==
    IF Has(boundOperations[Server], handle)
    THEN walk("boundOperations", boundOperations[Server], handle,
              Increasing(DOMAIN boundOperations[Server][handle]),
              handleEventArgs(player, args))
    ELSE <<>>

handleEventCalls(player, handle, args, order) ==
    IF Has(incomingEvents, handle)
    THEN walk("incomingEvents", incomingEvents, handle, order,
              handleEventArgs(player, args))
    ELSE <<>>

\* onEvent and handleEvent have no return value: what the handlers returned
\* is dropped, and the callback hands nothing back to the remote.
onEventReturn(made) == Undefined

onEvent(player, boundHandle, args) ==
    /\ op' = [name |-> "onEvent", inst |-> Server, handle |-> boundHandle,
              args |-> args, player |-> player]
    /\ IF ~verifyRemoteExistance(boundHandle, incomingEvents)
       THEN /\ warnings' = <<EventWarning(player)>>
            /\ calls' = <<>>
       ELSE /\ warnings' = <<>>
            /\ \E order \in walks(incomingEvents, boundHandle.value) :
                   calls' = handleEventCalls(player, boundHandle.value, args, order)
    /\ ret' = onEventReturn(calls')
    /\ fired' = <<>>
    /\ raised' = FALSE
    /\ NothingPrinted
    /\ UNCHANGED <<registry, history>>

\* remoteEvent.OnServerEvent: a message a player fired arrives.
OnServerEvent(player, boundEvent, args) ==
    /\ onEvent(player, boundEvent, args)
    /\ UNCHANGED channels

handleFunctionArgs(player, args) == <<player>> \o args

\* handleFunction's return without the return: the result is lost.
handleFunctionReturn_Dropped(player, handle, args) == Undefined

\* handleFunction: the handle's one responder is called and its result returned.
handleFunctionReturn(player, handle, args) ==
    HandlerResult(incomingFunctions[handle], handleFunctionArgs(player, args))

handleFunctionCalls(player, handle, args) ==
    <<Call("incomingFunctions", 0, incomingFunctions[handle],
           handleFunctionArgs(player, args))>>

\* The invoke call of the player gets the value as its reply.
replied(player, value) ==
    [invoking EXCEPT ![player] = [@ EXCEPT !.state = "replied", !.value = value]]

onFunction(player, boundHandle, args) ==
    /\ op' = [name |-> "onFunction", inst |-> Server, handle |-> boundHandle,
              args |-> args, player |-> player]
    /\ IF ~verifyRemoteExistance(boundHandle, incomingFunctions)
       THEN /\ warnings' = <<FunctionWarning(player)>>
            /\ calls' = <<>>
            /\ ret' = Undefined
            /\ raised' = FALSE
       ELSE IF ~Has(incomingFunctions, boundHandle.value)
       THEN \* handler is undefined: calling it raises
            /\ warnings' = <<>>
            /\ calls' = <<>>
            /\ ret' = [kind |-> "error"]
            /\ raised' = TRUE
       ELSE /\ warnings' = <<>>
            /\ calls' = handleFunctionCalls(player, boundHandle.value, args)
            /\ ret' = handleFunctionReturn(player, boundHandle.value, args)
            /\ raised' = FALSE
    /\ fired' = <<>>
    /\ NothingPrinted
    /\ UNCHANGED <<registry, history>>

\* remoteFunction.OnServerInvoke: a player's InvokeServer request arrives, and
\* what the callback returns is the reply to that call.
OnServerInvoke(player) ==
    /\ invoking[player].state = "requested"
    /\ onFunction(player, invoking[player].handle, invoking[player].args)
    /\ invoking' = replied(player, ret')
    /\ UNCHANGED yielded

on(handle, handler) ==
    /\ printed' = verbosePrint(Server, BoundEventMessage(handle))
    /\ bindListen("on", Server, handle, Group(Server, "incomingEvents"), handler)

\* handle that keeps the responder a handle already has.
handleTable_KeepsFirst(table, handle, handler) ==
    [h \in DOMAIN table \cup {handle} |-> IF h \in DOMAIN table THEN table[h] ELSE handler]

\* this.incomingFunctions[handle] = handler
handleTable(table, handle, handler) ==
    [h \in DOMAIN table \cup {handle} |-> IF h = handle THEN handler ELSE table[h]]

\* handle (named Handle: handle is every method's parameter)
Handle(handle, handler) ==
    /\ printed' = verbosePrint(Server, BoundFunctionMessage(handle))
    /\ UNCHANGED verbose
    /\ incomingFunctions' = handleTable(incomingFunctions, handle, handler)
    /\ op' = [name |-> "handle", inst |-> Server, handle |-> handle,
              args |-> <<handler>>, player |-> ""]
    /\ calls' = <<>>
    /\ ret' = Undefined
    /\ warnings' = <<>>
    /\ fired' = <<>>
    /\ raised' = FALSE
    /\ UNCHANGED <<caseNumber, boundOperations, boundPostOperations, incomingEvents,
                   history, channels>>

---------------------------------------------------------------------------
(* BaseClientDispatcher *)

\* handleEvent that checks the handle as the server's onEvent does.
clientHandleEventWarnings_Verified(player, handle) ==
    IF Has(boundOperations[player], handle) \/ Has(boundPostOperations[player], handle)
    THEN <<>>
    ELSE <<EventWarning(Server)>>

\* handleEvent passes the handle on unchecked: nothing is warned about.
clientHandleEventWarnings(player, handle) == <<>>

\* handleEvent: this.dispatch(handle, ...args)
clientHandleEvent(player, handle, args) ==
    /\ dispatchBody("handleEvent", player, handle.value, args, "")
    /\ warnings' = clientHandleEventWarnings(player, handle.value)

\* remoteEvent.OnClientEvent: a message the server fired arrives.
OnClientEvent(player, boundEvent, args) ==
    /\ clientHandleEvent(player, boundEvent, args)
    /\ UNCHANGED channels

\* What the client's emit hands to the remote: one FireServer.
clientEmitFired(handle, args) ==
    <<Message("DispatcherEvent", {Server}, handle, args)>>

\* emit: FireServer(handle, ...args)
clientEmit(player, handle, args) ==
    /\ fired' = clientEmitFired(handle, args)
    /\ op' = [name |-> "emit", inst |-> player, handle |-> handle, args |-> args,
              player |-> ""]
    /\ calls' = <<>>
    /\ ret' = Undefined
    /\ warnings' = <<>>
    /\ raised' = FALSE
    /\ NothingPrinted
    /\ UNCHANGED <<registry, history, channels>>

\* What invoke hands to the remote: one InvokeServer.
invokeFired(handle, args) ==
    <<Message("DispatcherFunction", {Server}, handle, args)>>

\* invoke, up to InvokeServer: the request is on its way and the caller waits.
invoke(player, handle, args) ==
    /\ invoking[player].state = "idle"
    /\ invoking' = [invoking EXCEPT ![player] =
           [state |-> "requested", handle |-> handle, args |-> args,
            value |-> Undefined]]
    /\ UNCHANGED yielded
    /\ op' = [name |-> "invoke", inst |-> player, handle |-> handle, args |-> args,
              player |-> ""]
    /\ calls' = <<>>
    /\ ret' = Undefined
    /\ warnings' = <<>>
    /\ fired' = invokeFired(handle, args)
    /\ raised' = FALSE
    /\ NothingPrinted
    /\ UNCHANGED <<registry, history>>

\* What invoke returns: what InvokeServer returned.
invokeValue(reply) == reply

\* invoke, from the reply on: InvokeServer returns and so does invoke.
invokeReturn(player) ==
    /\ invoking[player].state = "replied"
    /\ yielded[player] = <<>>
    /\ invoking' = [invoking EXCEPT ![player] = Idle]
    /\ UNCHANGED yielded
    /\ op' = [name |-> "invokeReturn", inst |-> player,
              handle |-> invoking[player].handle, args |-> invoking[player].args,
              player |-> ""]
    /\ calls' = <<>>
    /\ ret' = invokeValue(invoking[player].value)
    /\ warnings' = <<>>
    /\ fired' = <<>>
    /\ raised' = FALSE
    /\ NothingPrinted
    /\ UNCHANGED <<registry, history>>

---------------------------------------------------------------------------
(* Handlers that act *)
(*                                                                         *)
(* A handler is the caller's function and may do what any function may:    *)
(* throw, or call the dispatcher it is registered with.  The handlers      *)
(* below do one such thing each.  The operations that call them are the    *)
(* same methods as above, followed call by call: a walk is a frame on a    *)
(* stack, a dispatch called by a handler is a frame on top of it, an error *)
(* leaves through every frame (nothing in the library catches one), and    *)
(* InvokeServer called by a handler suspends the whole stack until the     *)
(* reply.                                                                  *)

\* error('...')
Thrower == "boom"

\* this.unbind(identifier), of the identifier with id 0 and with id 1 that the
\* handler's own dispatcher issued
Unbinders == {"u0", "u1"}

UnbindTarget(handler) == IF handler = "u0" THEN 0 ELSE 1

\* this.listen('foo', h1) and this.listenPost('foo', h1)
Listener == "l"

PostListener == "lp"

\* this.dispatch('bar')
Redispatcher == "d"

\* this.broadcast('foo') on the server, this.emit('foo') on a client
Emitter == "e"

\* this.invoke('foo'), on a client
Invoker == "i"

\* The handle the handlers above register and send under, and the one they
\* dispatch.
ActedHandle == "foo"

RedispatchedHandle == "bar"

\* One walk of one Map inside dispatch or handleEvent.  present and post say
\* whether the handle had a Map in the walk's table, and in the post table,
\* when the method read them into its locals; seen are the keys the walk has
\* passed; loose is set once a key was added to the Map under the walk.
Frame(inst, table, handle, args, present, post) ==
    [inst |-> inst, table |-> table, handle |-> handle, args |-> args,
     present |-> present, post |-> post, seen |-> {}, loose |-> FALSE]

\* Everything a handler can change, as the operation that runs it found it.
World(stack) ==
    [caseNumber |-> caseNumber, boundOperations |-> boundOperations,
     boundPostOperations |-> boundPostOperations,
     incomingEvents |-> incomingEvents, registered |-> registered,
     unbound |-> unbound, invoking |-> invoking, calls |-> <<>>,
     fired |-> <<>>, printed |-> <<>>, raised |-> FALSE, suspended |-> FALSE,
     beyond |-> FALSE, stack |-> stack]

WorldTable(w, group) ==
    CASE group.table = "boundOperations" -> w.boundOperations[group.inst]
      [] group.table = "boundPostOperations" -> w.boundPostOperations[group.inst]
      [] group.table = "incomingEvents" -> w.incomingEvents

SetWorldTable(w, group, operations) ==
    CASE group.table = "boundOperations" ->
             [w EXCEPT !.boundOperations[group.inst] = operations]
      [] group.table = "boundPostOperations" ->
             [w EXCEPT !.boundPostOperations[group.inst] = operations]
      [] group.table = "incomingEvents" ->
             [w EXCEPT !.incomingEvents = operations]

\* verbosePrint called inside an operation that a handler may have called.
worldPrint(w, d, message) == [w EXCEPT !.printed = @ \o verbosePrint(d, message)]

\* An error caught where it was thrown: the walk goes on.
Raise_Caught(w) == w

\* An error that nothing catches: it leaves through every frame.
Raise(w) == [w EXCEPT !.raised = TRUE, !.stack = <<>>]

\* A key was added to the handle's Map of the group: every walk that is under
\* way over that Map goes on as next() may after that, passing any live key
\* again or stopping short of the rest.
Loosen(w, group, handle) ==
    LET under(f) == /\ f.inst = group.inst
                    /\ f.table = group.table
                    /\ f.handle = handle
                    /\ f.present
    IN  [w EXCEPT !.stack =
            [k \in DOMAIN w.stack |->
                IF under(w.stack[k])
                THEN [w.stack[k] EXCEPT !.loose = TRUE, !.seen = {}]
                ELSE w.stack[k]]]

\* bindListen called by a handler (beyond: the caseNumber is past MaxCase)
worldBindListen(w, group, handle, handler) ==
    LET d == group.inst
        n == w.caseNumber[d]
        bound == SetWorldTable(w, group,
                     bindListenTable(WorldTable(w, group), handle, n, handler))
    IN  IF n >= MaxCase THEN [w EXCEPT !.beyond = TRUE]
        ELSE Loosen([bound EXCEPT
                        !.caseNumber[d] = nextCaseNumber(n),
                        !.registered = @ \cup
                            {[identifier |-> Identifier(group, handle, n),
                              handler |-> handler]}],
                    group, handle)

\* unbind called by a handler with the identifier of the id that its
\* dispatcher issued; the handler's variable is still undefined when there is
\* none, and unbind raises on indexing it.
worldUnbind(w, d, id) ==
    LET held == {r.identifier : r \in
                    {x \in w.registered : /\ x.identifier.group.inst = d
                                          /\ x.identifier.id = id}}
    IN  IF held = {} THEN Raise(w)
        ELSE LET i == CHOOSE x \in held : TRUE
             IN  [SetWorldTable(w, i.group,
                      unbindTable(WorldTable(w, i.group), i.handle, i.id))
                  EXCEPT !.unbound = @ \cup {i}]

\* broadcast or emit called by a handler; a dispatcher that is neither the
\* server's nor a client's has no such method, and calling it raises.
worldSend(w, d) ==
    IF d = Server
    THEN [w EXCEPT !.fired = @ \o broadcastFired(Str(ActedHandle), <<>>)]
    ELSE IF d \in Clients
    THEN [w EXCEPT !.fired = @ \o clientEmitFired(Str(ActedHandle), <<>>)]
    ELSE Raise(w)

\* invoke called by a handler: the request goes out and the handler waits
\* inside InvokeServer, and with it every frame under it (beyond: the client
\* is inside an invoke already).  Only a client has the method.
worldInvoke(w, d) ==
    IF d \notin Clients THEN Raise(w)
    ELSE IF w.invoking[d].state # "idle" THEN [w EXCEPT !.beyond = TRUE]
    ELSE [w EXCEPT !.invoking[d] =
                       [state |-> "requested", handle |-> Str(ActedHandle),
                        args |-> <<>>, value |-> Undefined],
                   !.fired = @ \o invokeFired(Str(ActedHandle), <<>>),
                   !.suspended = TRUE]

\* dispatch that makes the handle's Map when there is none.
worldDispatch_Creating(w, d, handle, args) ==
    [worldPrint(w, d, QueuedMessage(handle, w.boundOperations[d],
                                    w.boundPostOperations[d]))
     EXCEPT !.boundOperations[d] =
                  [h \in DOMAIN @ \cup {handle} |->
                      IF h \in DOMAIN @ THEN @[h] ELSE EmptyMap],
              !.stack =
                  <<Frame(d, "boundOperations", handle, args, TRUE,
                          Has(w.boundPostOperations[d], handle))>> \o @]

\* dispatch called by anyone: it reads the handle's two Maps into its locals
\* and starts on the first.
worldDispatch(w, d, handle, args) ==
    [worldPrint(w, d, QueuedMessage(handle, w.boundOperations[d],
                                    w.boundPostOperations[d]))
     EXCEPT !.stack =
        <<Frame(d, "boundOperations", handle, args,
                Has(w.boundOperations[d], handle),
                Has(w.boundPostOperations[d], handle))>> \o @]

\* What calling the handler does, beside being called.
Act(handler, d, w) ==
    CASE handler = Thrower -> Raise(w)
      [] handler \in Unbinders -> worldUnbind(w, d, UnbindTarget(handler))
      [] handler = Listener ->
             worldBindListen(worldPrint(w, d, BoundMessage(ActedHandle)),
                             Group(d, "boundOperations"), ActedHandle, TheHandler)
      [] handler = PostListener ->
             worldBindListen(worldPrint(w, d, BoundPostMessage(ActedHandle)),
                             Group(d, "boundPostOperations"), ActedHandle,
                             TheHandler)
      [] handler = Redispatcher -> worldDispatch(w, d, RedispatchedHandle, <<>>)
      [] handler = Emitter -> worldSend(w, d)
      [] handler = Invoker -> worldInvoke(w, d)
      [] OTHER -> w

\* The walk on top has no more keys to pass: dispatch goes on from the first
\* Map to the post Map, and every other walk returns to what called it.
Finished(w) ==
    LET f == Head(w.stack)
    IN  [w EXCEPT !.stack =
            IF f.table = "boundOperations"
            THEN <<[f EXCEPT !.table = "boundPostOperations", !.present = f.post,
                             !.seen = {}, !.loose = FALSE]>> \o Tail(@)
            ELSE Tail(@)]

\* The ways the frames can run from here: to the end, to an error, or to a
\* handler that waits.  A walk passes the keys that are in its Map when it
\* comes to them, each once and in any order: a key deleted before the walk
\* came to it is not passed.
RECURSIVE Exec(_)
Exec(w) ==
    IF w.raised \/ w.suspended \/ w.beyond \/ w.stack = <<>> THEN {w}
    ELSE LET f == Head(w.stack)
             map == IF f.present
                    THEN WorldTable(w, Group(f.inst, f.table))[f.handle]
                    ELSE EmptyMap
             next == DOMAIN map \ f.seen
             called(k) ==
                 [w EXCEPT !.stack = <<[f EXCEPT !.seen = @ \cup {k}]>> \o Tail(@),
                           !.calls = Append(@, Call(f.table, k, map[k], f.args))]
         IN  (IF next = {} \/ f.loose THEN Exec(Finished(w)) ELSE {})
             \cup UNION {Exec(Act(map[k], f.inst, called(k))) : k \in next}

\* What the handlers did becomes the state.
Commit(w) ==
    /\ ~w.beyond
    /\ caseNumber' = w.caseNumber
    /\ boundOperations' = w.boundOperations
    /\ boundPostOperations' = w.boundPostOperations
    /\ incomingEvents' = w.incomingEvents
    /\ registered' = w.registered
    /\ unbound' = w.unbound
    /\ calls' = w.calls
    /\ fired' = w.fired
    /\ raised' = w.raised
    /\ printed' = w.printed
    /\ UNCHANGED <<incomingFunctions, verbose>>

\* The frames left waiting, when a handler of the client's pass waits.
Waiting(w, d) == IF w.suspended THEN [yielded EXCEPT ![d] = w.stack] ELSE yielded

dispatchActingBody(name, d, handle, args) ==
    \E w \in Exec(worldDispatch(World(<<>>), d, handle, args)) :
        /\ Commit(w)
        /\ invoking' = w.invoking
        /\ yielded' = Waiting(w, d)
        /\ op' = [name |-> name, inst |-> d, handle |-> handle, args |-> args,
                  player |-> ""]
        /\ ret' = dispatchReturn(w.calls)
        /\ warnings' = <<>>

\* dispatch
dispatchActing(d, handle, args) == dispatchActingBody("dispatch", d, handle, args)

\* The client's OnClientEvent callback: handleEvent, which is dispatch.
OnClientEventActing(player, boundEvent, args) ==
    dispatchActingBody("handleEvent", player, boundEvent.value, args)

\* The server's OnServerEvent callback: onEvent, then handleEvent's walk.  An
\* error of a handler leaves through handleEvent, onEvent and the callback.
OnServerEventActing(player, boundHandle, args) ==
    /\ op' = [name |-> "onEvent", inst |-> Server, handle |-> boundHandle,
              args |-> args, player |-> player]
    /\ IF ~verifyRemoteExistance(boundHandle, incomingEvents)
       THEN /\ warnings' = <<EventWarning(player)>>
            /\ calls' = <<>>
            /\ fired' = <<>>
            /\ raised' = FALSE
            /\ ret' = Undefined
            /\ NothingPrinted
            /\ UNCHANGED <<registry, history>>
       ELSE /\ warnings' = <<>>
            /\ \E w \in Exec(World(<<Frame(Server, "incomingEvents", boundHandle.value,
                                           handleEventArgs(player, args),
                                           Has(incomingEvents, boundHandle.value),
                                           FALSE)>>)) :
                   /\ Commit(w)
                   /\ ret' = onEventReturn(w.calls)
    /\ UNCHANGED channels

\* The server's OnServerInvoke callback: onFunction, then handleFunction's one
\* call.  What the responder returns is the reply; an error of the responder
\* leaves through handleFunction, onFunction and the callback, and the remote
\* raises it in the client's InvokeServer.
OnServerInvokeActing(player) ==
    LET boundHandle == invoking[player].handle
        args == invoking[player].args
    IN  /\ invoking[player].state = "requested"
        /\ op' = [name |-> "onFunction", inst |-> Server, handle |-> boundHandle,
                  args |-> args, player |-> player]
        /\ IF ~verifyRemoteExistance(boundHandle, incomingFunctions)
           THEN /\ warnings' = <<FunctionWarning(player)>>
                /\ calls' = <<>>
                /\ fired' = <<>>
                /\ raised' = FALSE
                /\ ret' = Undefined
                /\ NothingPrinted
                /\ UNCHANGED <<registry, history>>
           ELSE /\ warnings' = <<>>
                /\ \E w \in Exec(Act(incomingFunctions[boundHandle.value], Server,
                                     [World(<<>>) EXCEPT !.calls =
                                         handleFunctionCalls(player, boundHandle.value,
                                                             args)])) :
                       /\ Commit(w)
                       /\ ret' = IF w.raised THEN [kind |-> "error"]
                                 ELSE handleFunctionReturn(player, boundHandle.value,
                                                           args)
        /\ invoking' = replied(player, ret')
        /\ UNCHANGED yielded

\* The client's InvokeServer, called by a handler, returns: the handler goes
\* on and returns, and so do the frames that waited under it.  An error that
\* was the reply is raised in the handler.
invokeResumed(player) ==
    /\ invoking[player].state = "replied"
    /\ yielded[player] # <<>>
    /\ LET left == [World(yielded[player]) EXCEPT !.invoking[player] = Idle]
           bottom == yielded[player][Len(yielded[player])]
       IN  \E w \in Exec(IF invoking[player].value.kind = "error"
                         THEN Raise(left) ELSE left) :
               /\ Commit(w)
               /\ invoking' = w.invoking
               /\ yielded' = [yielded EXCEPT ![player] =
                                 IF w.suspended THEN w.stack ELSE <<>>]
               /\ op' = [name |-> "resumed", inst |-> player,
                         handle |-> bottom.handle, args |-> bottom.args,
                         player |-> ""]
               /\ ret' = Undefined
               /\ warnings' = <<>>

---------------------------------------------------------------------------
(* A dispatcher used locally: listen, listenPost, unbind, dispatch *)

NextDispatcher ==
    \/ \E h \in Handles, f \in Handlers : listen(Server, h, f)
    \/ \E h \in Handles, f \in Handlers : listenPost(Server, h, f)
    \/ \E i \in issued : unbind(Server, i)
    \/ \E h \in Handles, a \in ArgLists : dispatch(Server, h, a)

SpecDispatcher == Init /\ [][NextDispatcher]_vars

---------------------------------------------------------------------------
(* The server's events: on and unbind, and the events its players fire *)

NextServer ==
    \/ \E h \in Handles, f \in Handlers : on(h, f)
    \/ \E i \in issued : unbind(Server, i)
    \/ \E p \in Players, h \in WireHandles, a \in ArgLists : OnServerEvent(p, h, a)
    \/ \E p \in Players, h \in WireHandles, a \in ArgLists : serverEmit(p, h, a)
    \/ \E h \in WireHandles, a \in ArgLists : broadcast(h, a)

SpecServer == Init /\ [][NextServer]_vars

---------------------------------------------------------------------------
(* The server's functions and the players' invokes of them *)

NextFunctions ==
    \/ \E h \in Handles, f \in Handlers : Handle(h, f)
    \/ \E p \in Players, h \in WireHandles, a \in ArgLists : invoke(p, h, a)
    \/ \E p \in Players : OnServerInvoke(p)
    \/ \E p \in Players : invokeReturn(p)

SpecFunctions == Init /\ [][NextFunctions]_vars

---------------------------------------------------------------------------
(* A client: its local operations, and the events the server fires to it *)

NextClient ==
    \/ \E p \in Clients, h \in Handles, f \in Handlers : listen(p, h, f)
    \/ \E p \in Clients, h \in Handles, f \in Handlers : listenPost(p, h, f)
    \/ \E i \in issued : unbind(i.group.inst, i)
    \/ \E p \in Clients, h \in Handles, a \in ArgLists : dispatch(p, h, a)
    \/ \E p \in Clients, h \in WireHandles, a \in ArgLists : OnClientEvent(p, h, a)
    \/ \E p \in Clients, h \in WireHandles, a \in ArgLists : clientEmit(p, h, a)

SpecClient == Init /\ [][NextClient]_vars

---------------------------------------------------------------------------
(* Events on both sides of the boundary, and local dispatch beside them *)

NextBoundary ==
    \/ \E h \in Handles : on(h, TheHandler)
    \/ \E p \in Clients, h \in Handles : listen(p, h, TheHandler)
    \/ \E p \in Clients, h \in Handles, a \in ArgLists : dispatch(p, h, a)
    \/ \E p \in Players, h \in WireHandles, a \in ArgLists : OnServerEvent(p, h, a)
    \/ \E p \in Clients, h \in WireHandles, a \in ArgLists : OnClientEvent(p, h, a)
    \/ \E p \in Players, h \in WireHandles, a \in ArgLists : serverEmit(p, h, a)
    \/ \E h \in WireHandles, a \in ArgLists : broadcast(h, a)
    \/ \E p \in Clients, h \in WireHandles, a \in ArgLists : clientEmit(p, h, a)

SpecBoundary == Init /\ [][NextBoundary]_vars

---------------------------------------------------------------------------
(* Registration and unbinding alone, in every table of the server *)

NextRegistry ==
    \/ \E h \in Handles, f \in Handlers : listen(Server, h, f)
    \/ \E h \in Handles, f \in Handlers : listenPost(Server, h, f)
    \/ \E h \in Handles, f \in Handlers : on(h, f)
    \/ \E i \in issued : unbind(Server, i)

SpecRegistry == Init /\ [][NextRegistry]_vars

---------------------------------------------------------------------------
(* Two dispatchers in one process: each one's operations, and unbind called *)
(* on either with an identifier of either                                   *)

\* The handle used where one handle is enough.
SharedHandle == "foo"

NextInstances ==
    \/ \E d \in {Server, Other} : listen(d, SharedHandle, TheHandler)
    \/ \E d \in {Server, Other} : listenPost(d, SharedHandle, TheHandler)
    \/ on(SharedHandle, TheHandler)
    \/ Handle(SharedHandle, TheHandler)
    \/ \E d \in {Server, Other}, i \in issued : unbind(d, i)
    \/ \E d \in {Server, Other}, a \in ArgLists : dispatch(d, SharedHandle, a)

SpecInstances == Init /\ [][NextInstances]_vars

---------------------------------------------------------------------------
(* The server's four tables with one handler in all of them: registrations *)
(* of every kind, local dispatch, and the events of the players            *)

NextTables ==
    \/ \E h \in Handles : listen(Server, h, TheHandler)
    \/ \E h \in Handles : listenPost(Server, h, TheHandler)
    \/ \E h \in Handles : on(h, TheHandler)
    \/ \E h \in Handles : Handle(h, TheHandler)
    \/ \E h \in Handles, a \in ArgLists : dispatch(Server, h, a)
    \/ \E p \in Players, h \in WireHandles, a \in ArgLists : OnServerEvent(p, h, a)

SpecTables == Init /\ [][NextTables]_vars

---------------------------------------------------------------------------
(* Dispatch whose handlers unbind and listen under the handle dispatched *)

Mutators == {TheHandler, Listener, PostListener} \cup Unbinders

NextMutation ==
    \/ \E f \in Mutators : listen(Server, ActedHandle, f)
    \/ \E f \in Mutators : listenPost(Server, ActedHandle, f)
    \/ \E a \in ArgLists : dispatchActing(Server, ActedHandle, a)

SpecMutation == Init /\ [][NextMutation]_vars

---------------------------------------------------------------------------
(* Dispatch whose handlers may throw *)

Failing == {TheHandler, Thrower}

NextFailure ==
    \/ \E h \in Handles, f \in Failing : listen(Server, h, f)
    \/ \E h \in Handles, f \in Failing : listenPost(Server, h, f)
    \/ \E i \in issued : unbind(Server, i)
    \/ \E h \in Handles, a \in ArgLists : dispatchActing(Server, h, a)

SpecFailure == Init /\ [][NextFailure]_vars

---------------------------------------------------------------------------
(* The server's callbacks whose handlers may throw *)

NextCallbacks ==
    \/ \E h \in Handles, f \in Failing : on(h, f)
    \/ \E h \in Handles, f \in Failing : Handle(h, f)
    \/ \E p \in Players, h \in WireHandles, a \in ArgLists :
           OnServerEventActing(p, h, a)
    \/ \E p \in Clients, h \in WireHandles, a \in ArgLists : invoke(p, h, a)
    \/ \E p \in Clients : OnServerInvokeActing(p)
    \/ \E p \in Clients : invokeReturn(p)

SpecCallbacks == Init /\ [][NextCallbacks]_vars

---------------------------------------------------------------------------
(* Handlers that dispatch, emit and invoke from inside a dispatch, on the *)
(* server and on a client                                                  *)

\* A handler that dispatches RedispatchedHandle is registered under
\* ActedHandle only: under RedispatchedHandle it would call itself without
\* end.
Reentrant == {Redispatcher, Emitter}

Inner == {Emitter, Invoker}

NextReentrant ==
    \/ \E p \in Clients, f \in Reentrant : listen(p, ActedHandle, f)
    \/ \E p \in Clients, f \in Inner : listen(p, RedispatchedHandle, f)
    \/ \E f \in Reentrant : on(ActedHandle, f)
    \/ \E p \in Clients, h \in Handles : dispatchActing(p, h, <<>>)
    \/ \E p \in Clients, h \in Handles : OnServerEventActing(p, Str(h), <<>>)
    \/ \E p \in Clients, h \in Handles : OnClientEventActing(p, Str(h), <<>>)
    \/ \E p \in Clients : OnServerInvokeActing(p)
    \/ \E p \in Clients : invokeResumed(p)
    \/ \E p \in Clients : serverEmit(p, Str(ActedHandle), <<>>)
    \/ broadcast(Str(ActedHandle), <<>>)
    \/ \E p \in Clients : clientEmit(p, Str(ActedHandle), <<>>)
    \/ \E p \in Clients : invoke(p, Str(ActedHandle), <<>>)
    \/ \E p \in Clients : invokeReturn(p)

SpecReentrant == Init /\ [][NextReentrant]_vars

---------------------------------------------------------------------------
(* Everything that sends: emit, broadcast and invoke, with the answers *)

NextSends ==
    \/ \E p \in Players, h \in WireHandles, a \in ArgLists : serverEmit(p, h, a)
    \/ \E h \in WireHandles, a \in ArgLists : broadcast(h, a)
    \/ \E p \in Clients, h \in WireHandles, a \in ArgLists : clientEmit(p, h, a)
    \/ \E h \in Handles, f \in Handlers : Handle(h, f)
    \/ \E p \in Players, h \in WireHandles, a \in ArgLists : invoke(p, h, a)
    \/ \E p \in Players : OnServerInvoke(p)
    \/ \E p \in Players : invokeReturn(p)

SpecSends == Init /\ [][NextSends]_vars

---------------------------------------------------------------------------
(* The server with its verbose flag assigned at will: every registration, *)
(* local dispatch, and the events and invokes of the players               *)

NextTracing ==
    \/ \E b \in BOOLEAN : setVerbose(Server, b)
    \/ listen(Server, SharedHandle, TheHandler)
    \/ listenPost(Server, SharedHandle, TheHandler)
    \/ on(SharedHandle, TheHandler)
    \/ \E f \in Handlers : Handle(SharedHandle, f)
    \/ \E h \in Handles : dispatch(Server, h, <<>>)
    \/ \E p \in Players, h \in WireHandles : OnServerEvent(p, h, <<>>)
    \/ \E p \in Clients, h \in WireHandles : invoke(p, h, <<>>)
    \/ \E p \in Clients : OnServerInvoke(p)
    \/ \E p \in Clients : invokeReturn(p)

SpecTracing == Init /\ [][NextTracing]_vars

---------------------------------------------------------------------------
(* Everything together *)

Next ==
    \/ NextDispatcher \/ NextServer \/ NextFunctions \/ NextClient
    \/ NextBoundary \/ NextRegistry \/ NextInstances \/ NextTables \/ NextSends
    \/ NextMutation \/ NextFailure \/ NextCallbacks \/ NextReentrant
    \/ NextTracing

Spec == Init /\ [][Next]_vars

---------------------------------------------------------------------------
(* What the properties below speak of *)

LocalTables == {"boundOperations", "boundPostOperations"}

Groups ==
    {Group(d, t) : d \in Instances, t \in LocalTables}
    \cup {Group(Server, "incomingEvents")}

\* The handle's map, empty when the handle has none.
MapOf(operations, handle) ==
    IF Has(operations, handle) THEN operations[handle] ELSE EmptyMap

\* The ids registered under the handle.
Ids(operations, handle) == DOMAIN MapOf(operations, handle)

\* The calls of one walk in order of registration.
InOrder(table, operations, handle, args) ==
    LET order == Increasing(Ids(operations, handle))
    IN  [k \in 1..Len(order) |->
            Call(table, order[k], operations[handle][order[k]], args)]

\* The call was made through the registration the identifier names.
Through(call, inst, identifier) ==
    /\ identifier.group.inst = inst
    /\ identifier.group.table = call.table
    /\ identifier.id = call.id

Live(identifier) ==
    identifier.id \in Ids(Table(identifier.group), identifier.handle)

---------------------------------------------------------------------------
(* BaseDispatcher: the properties *)

\* C1: dispatch(h, args) calls exactly the handlers registered under h: the
\* listen handlers of h in increasing id, then the listenPost handlers of h
\* in increasing id, each with args, and no handler of another handle.
C1_DispatchInRegistrationOrder ==
    op.name = "dispatch" =>
        calls = InOrder("boundOperations", boundOperations[op.inst],
                        op.handle, op.args)
                \o InOrder("boundPostOperations", boundPostOperations[op.inst],
                           op.handle, op.args)

\* C2: a dispatch makes no call through a registration that unbind has been
\* called with, and makes exactly one call, of the handler registered and
\* with the dispatch's arguments, through every registration of its handle
\* that has not been unbound.
C2_UnboundNeverInvokedOthersAre ==
    op.name = "dispatch" =>
        /\ \A i \in unbound :
               ~ \E k \in 1..Len(calls) : Through(calls[k], op.inst, i)
        /\ \A r \in registered :
               ( /\ r.identifier \notin unbound
                 /\ r.identifier.group.inst = op.inst
                 /\ r.identifier.group.table \in LocalTables
                 /\ r.identifier.handle = op.handle )
               => Cardinality({k \in 1..Len(calls) :
                      /\ Through(calls[k], op.inst, r.identifier)
                      /\ calls[k].handler = r.handler
                      /\ calls[k].args = op.args}) = 1

\* A dispatch of a handle after an earlier registration of it was unbound and
\* a later one was not, which made a call.
C2_Witness ==
    /\ op.name = "dispatch"
    /\ Len(calls) >= 1
    /\ \E i \in unbound, r \in registered :
           /\ i.handle = op.handle
           /\ r.identifier.handle = op.handle
           /\ r.identifier.group = i.group
           /\ r.identifier \notin unbound
           /\ r.identifier.id > i.id

\* C3: unbind(identifier) returns whether the registration was there, raises
\* nothing, removes that registration and changes no other registration of
\* any table; so a second unbind of the same identifier returns false and
\* changes nothing.
C3_UnbindExactlyOne ==
    [][op'.name = "unbind" =>
        LET i == op'.args[1]
        IN  /\ ret' = Bool(Live(i))
            /\ ~raised'
            /\ caseNumber' = caseNumber
            /\ incomingFunctions' = incomingFunctions
            /\ \A g \in Groups :
                   /\ DOMAIN Table(g)' = DOMAIN Table(g)
                   /\ \A h \in DOMAIN Table(g) :
                          /\ DOMAIN Table(g)'[h] =
                                 IF g = i.group /\ h = i.handle
                                 THEN DOMAIN Table(g)[h] \ {i.id}
                                 ELSE DOMAIN Table(g)[h]
                          /\ \A id \in DOMAIN Table(g)'[h] :
                                 Table(g)'[h][id] = Table(g)[h][id]
    ]_vars

\* A second unbind of an identifier, which returned false, while another
\* registration of the same handle is there.
C3_Witness ==
    /\ op.name = "unbind"
    /\ ret = Bool(FALSE)
    /\ ~raised
    /\ \E r \in registered :
           /\ r.identifier # op.args[1]
           /\ r.identifier.handle = op.handle
           /\ r.identifier.group = op.args[1].group
           /\ Live(r.identifier)

\* C4: a dispatch of a handle that has no registration, in either table,
\* calls no handler, raises nothing and changes no table, counter, remote
\* or identifier.
C4_EmptyDispatchNoOp ==
    [][( /\ op'.name = "dispatch"
         /\ Ids(boundOperations[op'.inst], op'.handle) = {}
         /\ Ids(boundPostOperations[op'.inst], op'.handle) = {} )
       => /\ calls' = <<>>
          /\ ~raised'
          /\ warnings' = <<>>
          /\ UNCHANGED <<registry, history, channels>>
    ]_vars

\* A dispatch of a handle whose registrations have all been unbound, while
\* another handle has one.
C4_Witness ==
    /\ op.name = "dispatch"
    /\ calls = <<>>
    /\ Has(boundOperations[op.inst], op.handle)
    /\ Ids(boundOperations[op.inst], op.handle) = {}
    /\ Ids(boundPostOperations[op.inst], op.handle) = {}
    /\ \E h \in Handles \ {op.handle} : Ids(boundOperations[op.inst], h) # {}

---------------------------------------------------------------------------
(* BaseServerDispatcher: the properties *)

\* The handle that arrived is a string and a key of the table.
Known(boundHandle, table) ==
    /\ boundHandle.type = "string"
    /\ Has(table, boundHandle.value)

\* C5: a remote event (sender, h, args) calls the on-handlers of h in
\* increasing id, each once and each with (sender, ...args).
C5_RemoteEventInRegistrationOrder ==
    (op.name = "onEvent" /\ Known(op.handle, incomingEvents)) =>
        calls = InOrder("incomingEvents", incomingEvents, op.handle.value,
                        <<op.player>> \o op.args)

\* C6: handle(h, f) makes f the one responder of h and touches no other
\* handle's; nothing but handle changes a responder; and a request for h calls
\* the responder h has then, only it and once, and replies its result.
C6_LastHandleWins ==
    [][ /\ op'.name = "handle" =>
              /\ DOMAIN incomingFunctions' = DOMAIN incomingFunctions \cup {op'.handle}
              /\ incomingFunctions'[op'.handle] = op'.args[1]
              /\ \A h \in DOMAIN incomingFunctions \ {op'.handle} :
                     incomingFunctions'[h] = incomingFunctions[h]
        /\ op'.name # "handle" => incomingFunctions' = incomingFunctions
        /\ (op'.name = "onFunction" /\ Known(op'.handle, incomingFunctions)) =>
              /\ Len(calls') = 1
              /\ calls'[1].handler = incomingFunctions[op'.handle.value]
              /\ ret' = HandlerResult(incomingFunctions[op'.handle.value], calls'[1].args)
              /\ invoking'[op'.player].value = ret'
    ]_vars

\* A request for a handle answered by one responder while another player
\* holds the reply an earlier responder of the same handle gave.
C6_Witness ==
    /\ op.name = "onFunction"
    /\ ret.kind = "result"
    /\ \E q \in Players \ {op.player} :
           /\ invoking[q].state = "replied"
           /\ invoking[q].handle = op.handle
           /\ invoking[q].value.kind = "result"
           /\ invoking[q].value.by # ret.by

\* C7: a player's request for a handle with a responder f makes the server
\* call f once, with (player, ...args), and puts f's result on that player's
\* call and on no other; invoke then returns the value on its own call; and
\* a call changes only by its player's invoke, the server's answer to that
\* player, and that invoke's return.
C7_InvokeReturnsTheResult ==
    [][ /\ (op'.name = "onFunction" /\ Known(op'.handle, incomingFunctions)) =>
              /\ invoking[op'.player].state = "requested"
              /\ op'.handle = invoking[op'.player].handle
              /\ op'.args = invoking[op'.player].args
              /\ calls' = <<Call("incomingFunctions", 0,
                                 incomingFunctions[op'.handle.value],
                                 <<op'.player>> \o op'.args)>>
              /\ invoking'[op'.player] =
                     [state |-> "replied", handle |-> op'.handle, args |-> op'.args,
                      value |-> HandlerResult(incomingFunctions[op'.handle.value],
                                              <<op'.player>> \o op'.args)]
        /\ op'.name = "invokeReturn" =>
              /\ invoking[op'.inst].state = "replied"
              /\ op'.handle = invoking[op'.inst].handle
              /\ op'.args = invoking[op'.inst].args
              /\ ret' = invoking[op'.inst].value
              /\ invoking'[op'.inst].state = "idle"
        /\ \A q \in Players :
              invoking'[q] # invoking[q] =>
                  \/ op'.name \in {"invoke", "invokeReturn"} /\ op'.inst = q
                  \/ op'.name = "onFunction" /\ op'.player = q
    ]_vars

\* An invoke that returned a responder's result while the other player's
\* invoke is still to be answered.
C7_Witness ==
    /\ op.name = "invokeReturn"
    /\ ret.kind = "result"
    /\ ret.with = <<op.inst>> \o op.args
    /\ \E q \in Players \ {op.inst} : invoking[q].state = "requested"

\* C8 as claimed: a remote event whose handle has no responder (not a string,
\* never passed to on, or every registration unbound) gives one warning that
\* names the sender, and no handler call.
C8_NoResponderWarns ==
    ( /\ op.name = "onEvent"
      /\ \/ op.handle.type # "string"
         \/ Ids(incomingEvents, op.handle.value) = {} )
    => /\ Len(warnings) = 1
       /\ warnings[1].player = op.player
       /\ calls = <<>>

\* C8, amended: a remote event whose handle is not a key of incomingEvents
\* (not a string, or never passed to on) gives one warning that names the
\* sender, and no handler call; a handle whose registrations are all unbound
\* is still a key, and gives no warning and no handler call.
C8_UnknownKeyWarns ==
    op.name = "onEvent" =>
        /\ ~Known(op.handle, incomingEvents) =>
               /\ warnings = <<EventWarning(op.player)>>
               /\ calls = <<>>
        /\ (Known(op.handle, incomingEvents)
            /\ Ids(incomingEvents, op.handle.value) = {}) =>
               /\ warnings = <<>>
               /\ calls = <<>>

\* A remote event of a handle never passed to on, warned about, while another
\* handle has a handler.
C8_Witness ==
    /\ op.name = "onEvent"
    /\ op.handle.type = "string"
    /\ ~Has(incomingEvents, op.handle.value)
    /\ Len(warnings) = 1
    /\ \E h \in Handles : Ids(incomingEvents, h) # {}

\* C9: a request whose handle is not a key of incomingFunctions (not a
\* string, or never passed to handle) gives one warning, no handler call and
\* an empty reply to the caller.
C9_UnknownFunctionWarns ==
    (op.name = "onFunction" /\ ~Known(op.handle, incomingFunctions)) =>
        /\ Len(warnings) = 1
        /\ calls = <<>>
        /\ ~raised
        /\ ret = Undefined
        /\ invoking[op.player].state = "replied"
        /\ invoking[op.player].value = Undefined

\* A request for a handle never passed to handle, while another handle has a
\* responder.
C9_Witness ==
    /\ op.name = "onFunction"
    /\ op.handle.type = "string"
    /\ ~Has(incomingFunctions, op.handle.value)
    /\ DOMAIN incomingFunctions # {}
    /\ Len(warnings) = 1

---------------------------------------------------------------------------
(* BaseClientDispatcher: the properties *)

\* The client has no map for the handle, in either table.
UnknownToClient(d, handle) ==
    /\ ~Has(boundOperations[d], handle)
    /\ ~Has(boundPostOperations[d], handle)

---------------------------------------------------------------------------
(* The boundary: the properties *)

\* Every call the last operation made was given exactly these arguments.
CalledWith(args) == \A k \in 1..Len(calls) : calls[k].args = args

\* C11 as claimed: every handler called because of a message received over
\* the boundary, on the server and on the client, is given the sender and then
\* the arguments sent; a handler called by a local dispatch is given the
\* dispatch's arguments and no sender.
C11_SenderFirstOnBothSides ==
    /\ op.name = "onEvent" => CalledWith(<<op.player>> \o op.args)
    /\ op.name = "handleEvent" => CalledWith(<<Server>> \o op.args)
    /\ op.name = "dispatch" => CalledWith(op.args)

\* C11, amended: on the server a handler called because of a received event
\* is given the sending player and then the arguments sent; on the client it
\* is given the arguments sent and no sender; a handler called by a local
\* dispatch is given the dispatch's arguments and no sender.
C11_SenderFirstOnServerOnly ==
    /\ op.name = "onEvent" => CalledWith(<<op.player>> \o op.args)
    /\ op.name = "handleEvent" => CalledWith(op.args)
    /\ op.name = "dispatch" => CalledWith(op.args)

\* An event with an argument received by the client and handed to a handler,
\* while the server has a handler for the same handle.
C11_Witness ==
    /\ op.name = "handleEvent"
    /\ Len(calls) >= 1
    /\ op.args # <<>>
    /\ Ids(incomingEvents, op.handle) # {}

\* C12: events are fire-and-forget.  An event received on the server or on
\* the client, and a local dispatch, hand nothing to a remote to send, return
\* nothing to their caller whatever their handlers returned, and leave every
\* invoke call as it was; emit and broadcast return nothing to their caller.
C12_EventsFireAndForget ==
    [][ /\ op'.name \in {"onEvent", "handleEvent", "dispatch"} =>
              /\ fired' = <<>>
              /\ ret' = Undefined
              /\ invoking' = invoking
        /\ op'.name \in {"emit", "broadcast"} =>
              /\ ret' = Undefined
              /\ invoking' = invoking
    ]_vars

\* An event with an argument received on the server, handed to two handlers
\* (each returns a value made from it), after which nothing was sent or
\* returned.
C12_Witness ==
    /\ op.name = "onEvent"
    /\ Len(calls) = 2
    /\ op.args # <<>>
    /\ fired = <<>>
    /\ ret = Undefined

\* The one message an operation that sends hands to its remote.
Sent(remote, to) == <<Message(remote, to, op.handle, op.args)>>

\* C13: each trigger makes one send and no more.  The server's emit hands the
\* event remote one message, to the player named and no other; broadcast one
\* message, to all players; the client's emit one message, to the server;
\* invoke one request to the function remote; and no other operation hands a
\* remote anything (nothing is sent again when a request is answered or an
\* invoke returns).
C13_OneSendPerTrigger ==
    /\ (op.name = "emit" /\ op.inst = Server) =>
           fired = Sent("DispatcherEvent", {op.player})
    /\ op.name = "broadcast" => fired = Sent("DispatcherEvent", Players)
    /\ (op.name = "emit" /\ op.inst \in Clients) =>
           fired = Sent("DispatcherEvent", {Server})
    /\ op.name = "invoke" => fired = Sent("DispatcherFunction", {Server})
    /\ op.name \notin {"emit", "broadcast", "invoke"} => fired = <<>>

\* A broadcast made while one player's invoke waits for its answer and the
\* other's has been answered.
C13_Witness ==
    /\ op.name = "broadcast"
    /\ Len(fired) = 1
    /\ \E p, q \in Players :
           /\ invoking[p].state = "requested"
           /\ invoking[q].state = "replied"

---------------------------------------------------------------------------
(* Identifiers: the properties *)

\* The identifiers the instance has returned so far.
IssuedBy(inst) == {i \in issued : i.group.inst = inst}

\* C14: listen, listenPost and on return an identifier whose id is greater
\* than every id their instance returned before, whatever table the earlier
\* ones were for and whether or not they have been unbound since; so no two
\* registrations of one instance share an id.
C14_IdsIncreaseAndNeverRepeat ==
    [][ /\ op'.name \in {"listen", "listenPost", "on"} =>
              /\ ret'.kind = "identifier"
              /\ ret'.value \in issued'
              /\ ret'.value.group.inst = op'.inst
              /\ ret'.value \notin issued
              /\ \A i \in IssuedBy(op'.inst) : ret'.value.id > i.id
        /\ \A r1, r2 \in registered' :
              ( /\ r1.identifier.group.inst = r2.identifier.group.inst
                /\ r1.identifier.id = r2.identifier.id ) => r1 = r2
    ]_vars

\* A registration made by the server after its first registration, in another
\* table, was unbound: the id is not given again.
C14_Witness ==
    /\ op.name \in {"listen", "listenPost", "on"}
    /\ op.inst = Server
    /\ ret.value.id = 1
    /\ \E i \in unbound :
           /\ i.group.inst = Server
           /\ i.group # ret.value.group
           /\ i.id = 0
           /\ ~Live(i)

\* C16: an operation called on one instance leaves the tables and the case
\* number of every other instance as they were, unbind with an identifier
\* another instance issued included.
C16_NoInstanceTouchesAnother ==
    [][ \A d \in Instances :
            op'.inst # d =>
                /\ caseNumber'[d] = caseNumber[d]
                /\ boundOperations'[d] = boundOperations[d]
                /\ boundPostOperations'[d] = boundPostOperations[d]
                /\ d = Server => /\ incomingEvents' = incomingEvents
                                 /\ incomingFunctions' = incomingFunctions
    ]_vars

---------------------------------------------------------------------------
(* Handlers that act: the properties *)

\* How many of the calls were made through the id of the table.
Times(made, table, id) ==
    Cardinality({k \in 1..Len(made) : made[k].table = table /\ made[k].id = id})

\* C15: a dispatch whose handlers unbind, listen and listenPost under the
\* handle dispatched, and which no handler's error ends, calls every handler
\* that was registered under the handle when it began exactly once, one
\* unbound by an earlier handler of the pass included, and calls no handler
\* twice.  (The order of the calls is left out: it is not the order of
\* registration even when no handler acts, see C1.)
C15_PassStableUnderMutation ==
    [][(op'.name = "dispatch" /\ ~raised') =>
          /\ \A t \in LocalTables :
                 \A id \in Ids(Table(Group(op'.inst, t)), op'.handle) :
                     Times(calls', t, id) = 1
          /\ \A k \in 1..Len(calls') :
                 Times(calls', calls'[k].table, calls'[k].id) = 1
    ]_vars

\* C17: the server's callback for a received event and for a received
\* request returns without an error, whatever the handle and the arguments
\* and whether or not a handler throws, and no error is the reply to a
\* request.
C17_NoErrorLeavesTheCallback ==
    op.name \in {"onEvent", "onFunction"} =>
        /\ ~raised
        /\ ret.kind # "error"
        /\ \A p \in Players : invoking[p].value.kind # "error"

\* The live registrations of the handle in the instance's table whose handler
\* throws.
Throwing(inst, table, handle) ==
    {id \in Ids(Table(Group(inst, table)), handle) :
        Table(Group(inst, table))[handle][id] = Thrower}

\* C18: a dispatch in which a handler throws ends there.  The error reaches
\* the caller of dispatch exactly when the handle has a handler that throws;
\* the handler that threw is the last one called; the ones called before it
\* are registered under the handle and were called once each, all of the
\* first table if it is of the post table; no handler after it is called, so
\* none of the post table if it is of the first; and no table and no
\* counter has changed.
C18_FailureEndsTheChain ==
    [][op'.name = "dispatch" =>
          LET main == Ids(boundOperations[op'.inst], op'.handle)
              n == Len(calls')
          IN  /\ raised' <=>
                     \/ Throwing(op'.inst, "boundOperations", op'.handle) # {}
                     \/ Throwing(op'.inst, "boundPostOperations", op'.handle) # {}
              /\ raised' =>
                     /\ n >= 1
                     /\ calls'[n].handler = Thrower
                     /\ \A k \in 1..(n - 1) : calls'[k].handler # Thrower
                     /\ \A k \in 1..n :
                            /\ calls'[k].table \in LocalTables
                            /\ calls'[k].id \in
                                   Ids(Table(Group(op'.inst, calls'[k].table)),
                                       op'.handle)
                            /\ calls'[k].args = op'.args
                            /\ Times(calls', calls'[k].table, calls'[k].id) = 1
                     /\ calls'[n].table = "boundOperations" =>
                            \A k \in 1..n : calls'[k].table = "boundOperations"
                     /\ calls'[n].table = "boundPostOperations" =>
                            \A id \in main : Times(calls', "boundOperations", id) = 1
              /\ UNCHANGED <<registry, history, channels>>
    ]_vars

\* A dispatch ended by a handler of the first table that threw, while the
\* handle has a handler in the post table, which was not called.
C18_Witness ==
    /\ op.name = "dispatch"
    /\ raised
    /\ calls[Len(calls)].table = "boundOperations"
    /\ Ids(boundPostOperations[op.inst], op.handle) # {}
    /\ \A k \in 1..Len(calls) : calls[k].table # "boundPostOperations"

\* C19: dispatch, emit, broadcast, invoke, the handling of a received event
\* and of a received request, and the return of an invoke change no table
\* and no case number, also when their handlers dispatch, emit and invoke from
\* inside them (no handler here registers or unbinds).
C19_OnlyRegistrationChangesTheRegistry ==
    [][op'.name \notin {"listen", "listenPost", "on", "handle", "unbind"} =>
          UNCHANGED <<registry, history>>
    ]_vars

\* A dispatch in which a handler dispatched another handle, and a handler of
\* that one emitted.
C19_Witness ==
    /\ op.name = "dispatch"
    /\ Len(calls) = 2
    /\ calls[1].handler = Redispatcher
    /\ calls[2].handler = Emitter
    /\ Len(fired) = 1
    /\ ~raised

---------------------------------------------------------------------------
(* The server's tables: the properties *)

\* The call was made through a registration of the handle in one of the tables.
FromTables(call, tables, handle) ==
    \E r \in registered :
        /\ r.identifier.group.inst = Server
        /\ r.identifier.group.table \in tables
        /\ r.identifier.group.table = call.table
        /\ r.identifier.handle = handle
        /\ r.identifier.id = call.id
        /\ r.handler = call.handler

\* C20: on the server, an event received for a handle calls the handlers
\* registered with on for it, all of them and no others: none registered with
\* listen or listenPost, even under the same handle.  A local dispatch of a
\* handle calls the handlers registered with listen and listenPost for it, all
\* of them and no others: none registered with on or handle.
C20_LocalAndRemoteTablesApart ==
    /\ (op.name = "onEvent" /\ Known(op.handle, incomingEvents)) =>
           /\ \A k \in 1..Len(calls) :
                  FromTables(calls[k], {"incomingEvents"}, op.handle.value)
           /\ Len(calls) = Cardinality(Ids(incomingEvents, op.handle.value))
    /\ (op.name = "dispatch" /\ op.inst = Server) =>
           /\ \A k \in 1..Len(calls) : FromTables(calls[k], LocalTables, op.handle)
           /\ Len(calls) = Cardinality(Ids(boundOperations[Server], op.handle))
                           + Cardinality(Ids(boundPostOperations[Server], op.handle))

\* An event received for a handle that has one on handler, one listen handler
\* and a responder: one call was made.
C20_Witness ==
    /\ op.name = "onEvent"
    /\ Len(calls) = 1
    /\ Cardinality(Ids(boundOperations[Server], op.handle.value)) = 1
    /\ Has(incomingFunctions, op.handle.value)

---------------------------------------------------------------------------
\* The operations that have a verbosePrint in them.
Traced == {"listen", "listenPost", "on", "handle", "dispatch"}

\* The handle a trace message names.
TracesOf(inst, handle) ==
    {Trace(inst, m) : m \in
        {BoundMessage(handle), BoundPostMessage(handle), BoundEventMessage(handle),
         BoundFunctionMessage(handle)}
        \cup {[text |-> "Queued", handle |-> handle, size |-> n, post |-> q] :
                 n \in 0..(MaxCase + 1),
                 q \in {<<>>} \cup {<<k>> : k \in 0..(MaxCase + 1)}}}

\* C21: tracing follows the verbose flag.  A registration (listen, listenPost,
\* on, handle, a handle that replaces a responder too) and a local dispatch
\* print exactly one message, about their handle, when their dispatcher is
\* verbose, and none when it is not; none of them warns; and an event or an
\* invoke with a handle the server does not know is warned about once and
\* printed nothing about, whatever the flag is.
C21_TracingFollowsVerbose ==
    [][/\ op'.name \in Traced =>
           /\ verbose[op'.inst] =>
                  /\ Len(printed') = 1
                  /\ printed'[1] \in TracesOf(op'.inst, op'.handle)
           /\ ~verbose[op'.inst] => printed' = <<>>
           /\ warnings' = <<>>
       /\ /\ op'.name = "onEvent"
          /\ ~verifyRemoteExistance(op'.handle, incomingEvents)
          => /\ Len(warnings') = 1
             /\ printed' = <<>>
       /\ /\ op'.name = "onFunction"
          /\ ~verifyRemoteExistance(op'.handle, incomingFunctions)
          => /\ Len(warnings') = 1
             /\ printed' = <<>>
      ]_vars

\* A verbose server was given a responder for a handle, and printed the one
\* message of it.
C21_Witness ==
    /\ op.name = "handle"
    /\ verbose[Server]
    /\ printed = <<Trace(Server, BoundFunctionMessage(op.handle))>>

====
